---------------------------- MODULE Spec2Model ----------------------------
(***************************************************************************)
(* A model of pyRouterJig's dimensional core: My_Fraction and Units        *)
(* (utils.py), the design serializer (serialize.py) and the pass-table     *)
(* report (utils.print_table).                                             *)
(*                                                                         *)
(* Python values are modelled as follows.  A str is a sequence of          *)
(* one-character strings.  A value whose Python type matters to the code   *)
(* (None against int, str against int) is a record [ty, v].  A float that  *)
(* the code computes from integers is the exact rational [num, den]; the   *)
(* quotients the modelled paths form are far inside the range where the    *)
(* double nearest to the rational rounds the same way.                     *)
(***************************************************************************)
EXTENDS Integers, Sequences, FiniteSets, TLC

VARIABLES
    Units_quant,  \* the class attribute Units.quant, in decimal places
    frac,         \* a My_Fraction object
    fprev,        \* that object before the last operation on it
    fops,         \* the operations applied to it, in order
    fres,         \* the outcome of the last operation: exception and string
    lunits,       \* a Units object
    lv,           \* a length in increments
    lstr,         \* increments_to_string(lv): exception and string
    lback,        \* string_to_increments of that string: exception and value
    lpc,          \* "start", "formatted" or "parsed"
    uinsts,       \* the Units objects constructed so far, in order
    ucalls,       \* the increments_to_string calls made so far, in order
    design,       \* the arguments of serialize: bit, boards, sp, config
    stream,       \* the pickled values serialize returned, in order
    loaded,       \* what unserialize returned or raised
    spc,          \* "start", "saved" or "loaded"
    tboards,      \* the four boards handed to print_table
    tloc,         \* print_table's local variables
    fd,           \* the report file: its state, header and data rows
    tpc           \* "start", "loop", "done" or "raised"

fracVars == <<frac, fprev, fops, fres>>
lenVars == <<lunits, lv, lstr, lback, lpc>>
unitVars == <<uinsts, ucalls>>
serVars == <<design, stream, loaded, spc>>
tblVars == <<tboards, tloc, fd, tpc>>
vars == <<Units_quant, fracVars, lenVars, unitVars, serVars, tblVars>>

---------------------------------------------------------------------------
(* Python values *)

PyNone == [ty |-> "None", v |-> 0]
PyInt(n) == [ty |-> "int", v |-> n]
PyStr(s) == [ty |-> "str", v |-> s]
PyBool(b) == [ty |-> "bool", v |-> b]

NoExc == "none"

Abs(n) == IF n < 0 THEN -n ELSE n

\* Python's // on integers: the floor of the quotient, for either sign of b.
FloorDiv(a, b) == IF b > 0 THEN a \div b ELSE (-a) \div (-b)

RECURSIVE GcdNat(_, _)
GcdNat(a, b) == IF b = 0 THEN a ELSE GcdNat(b, a % b)

\* math.gcd: the non-negative greatest common divisor of the magnitudes.
Gcd(a, b) == GcdNat(Abs(a), Abs(b))

Digits == <<"0", "1", "2", "3", "4", "5", "6", "7", "8", "9">>

RECURSIVE NatToStr(_)
NatToStr(n) == IF n < 10 THEN <<Digits[n + 1]>>
               ELSE NatToStr(n \div 10) \o <<Digits[(n % 10) + 1]>>

\* '%d' % n
FormatD(n) == IF n < 0 THEN <<"-">> \o NatToStr(-n) ELSE NatToStr(n)

---------------------------------------------------------------------------
(* My_Fraction, utils.py lines 54-157 *)

\* My_Fraction.__init__(english_separator, whole, numerator, denominator)
My_Fraction(english_separator, whole, numerator, denominator) ==
    [sign |-> IF whole < 0 \/ numerator < 0 THEN -1 ELSE 1,
     whole |-> Abs(whole),
     numerator |-> Abs(numerator),
     denominator |-> denominator,
     english_separator |-> english_separator]

\* reduce() without the division by the gcd.
reduce_no_gcd(self) ==
    IF self.denominator.ty = "None" \/ self.numerator = 0
    THEN [exc |-> NoExc, self |-> self]
    ELSE IF self.denominator.v = 0
    THEN [exc |-> "ZeroDivisionError", self |-> self]
    ELSE LET den == self.denominator.v
             dwhole == FloorDiv(self.numerator, den)
         IN [exc |-> NoExc,
             self |-> [self EXCEPT !.whole = self.whole + dwhole,
                                   !.numerator = self.numerator - dwhole * den]]

\* My_Fraction.reduce(): the object after the call and the exception raised.
\* numerator /= gcd and denominator /= gcd are true divisions of multiples of
\* gcd, so their float results are the integers written here.
reduce(self) ==
    IF self.denominator.ty = "None" \/ self.numerator = 0
    THEN [exc |-> NoExc, self |-> self]
    ELSE IF self.denominator.v = 0
    THEN [exc |-> "ZeroDivisionError", self |-> self]
    ELSE LET den == self.denominator.v
             dwhole == FloorDiv(self.numerator, den)
             whole == self.whole + dwhole
             numerator == self.numerator - dwhole * den
             gcd == Gcd(numerator, den)
         IN [exc |-> NoExc,
             self |-> [self EXCEPT !.whole = whole,
                                   !.numerator = FloorDiv(numerator, gcd),
                                   !.denominator = PyInt(FloorDiv(den, gcd))]]

\* My_Fraction.to_string(): the string, the object after the call (reduce()
\* mutates it) and the exception raised.
to_string(self) ==
    LET red == reduce(self)
        f == red.self
        s0 == IF f.sign < 0 THEN <<"-">> ELSE <<>>
        badsep == f.whole > 0 /\ f.numerator # 0 /\ f.english_separator.ty # "str"
        s1 == IF f.whole > 0
              THEN FormatD(f.whole) \o (IF f.numerator # 0 THEN f.english_separator.v ELSE <<>>)
              ELSE s0
        badden == f.numerator # 0 /\ f.denominator.ty = "None"
        s2 == IF f.numerator # 0
              THEN s1 \o FormatD(f.numerator) \o <<"/">> \o FormatD(f.denominator.v)
              ELSE IF f.whole = 0 THEN <<"0">> ELSE s1
    IN IF red.exc # NoExc THEN [exc |-> red.exc, s |-> <<>>, self |-> f]
       ELSE IF badsep \/ badden THEN [exc |-> "TypeError", s |-> <<>>, self |-> f]
       ELSE [exc |-> NoExc, s |-> s2, self |-> f]

---------------------------------------------------------------------------
(* str operations used by utils.py *)

WhiteSpace == {" ", "\t"}

RECURSIVE FindFrom(_, _, _)
FindFrom(s, c, i) ==
    IF i > Len(s) THEN 0 ELSE IF s[i] = c THEN i ELSE FindFrom(s, c, i + 1)

\* s.find(c) for a one-character c: the 1-based index, 0 for Python's -1.
Find(s, c) == FindFrom(s, c, 1)

RECURSIVE FindSub(_, _, _)
FindSub(s, old, i) ==
    IF i + Len(old) - 1 > Len(s) THEN 0
    ELSE IF SubSeq(s, i, i + Len(old) - 1) = old THEN i
    ELSE FindSub(s, old, i + 1)

\* s.replace(old, new, 1)
ReplaceFirst(s, old, new) ==
    LET i == FindSub(s, old, 1)
    IN IF i = 0 THEN s
       ELSE SubSeq(s, 1, i - 1) \o new \o SubSeq(s, i + Len(old), Len(s))

\* s.split(c) for a one-character c
RECURSIVE Split(_, _)
Split(s, c) ==
    LET i == Find(s, c)
    IN IF i = 0 THEN <<s>>
       ELSE <<SubSeq(s, 1, i - 1)>> \o Split(SubSeq(s, i + 1, Len(s)), c)

RECURSIVE LStrip(_)
LStrip(s) == IF s # <<>> /\ Head(s) \in WhiteSpace THEN LStrip(Tail(s)) ELSE s

RECURSIVE RStrip(_)
RStrip(s) ==
    IF s # <<>> /\ s[Len(s)] \in WhiteSpace THEN RStrip(SubSeq(s, 1, Len(s) - 1)) ELSE s

\* s.strip()
Strip(s) == RStrip(LStrip(s))

RECURSIVE FindSpace(_, _)
FindSpace(s, i) ==
    IF i > Len(s) THEN 0 ELSE IF s[i] \in WhiteSpace THEN i ELSE FindSpace(s, i + 1)

\* s.split(None): the whitespace-separated tokens
RECURSIVE SplitNone(_)
SplitNone(s) ==
    LET Tokens(t, n) ==
            IF t = <<>> THEN <<>>
            ELSE IF n = 0 THEN <<t>>
            ELSE <<SubSeq(t, 1, n - 1)>> \o SplitNone(SubSeq(t, n, Len(t)))
        Stripped(t) == Tokens(t, FindSpace(t, 1))
    IN Stripped(LStrip(s))

DigitVal(c) == CHOOSE d \in 0..9 : Digits[d + 1] = c

IsDigits(s) == s # <<>> /\ \A i \in 1..Len(s) : \E d \in 0..9 : Digits[d + 1] = s[i]

RECURSIVE DigitsVal(_)
DigitsVal(s) ==
    IF s = <<>> THEN 0
    ELSE 10 * DigitsVal(SubSeq(s, 1, Len(s) - 1)) + DigitVal(s[Len(s)])

\* int(s) of a str: surrounding whitespace, an optional sign, decimal digits.
py_int(s) ==
    LET Value(negative, n) == IF negative THEN -n ELSE n
        Parse(t, body) ==
            IF ~IsDigits(body) THEN [exc |-> "ValueError", v |-> 0]
            ELSE [exc |-> NoExc, v |-> Value(Head(t) = "-", DigitsVal(body))]
        Stripped(t) ==
            Parse(t, IF t # <<>> /\ Head(t) \in {"-", "+"} THEN Tail(t) ELSE t)
    IN Stripped(Strip(s))

RECURSIVE Pow10(_)
Pow10(k) == IF k = 0 THEN 1 ELSE 10 * Pow10(k - 1)

\* round(n/d) for d > 0, as Python 3 rounds: to nearest, a tie to the even one.
RoundHalfEven(n, d) ==
    LET q == n \div d
        r == n % d
    IN IF 2 * r < d THEN q
       ELSE IF 2 * r > d THEN q + 1
       ELSE IF q % 2 = 0 THEN q ELSE q + 1

\* my_round(f) of the float num/den: int(round(f))
my_round(f) ==
    IF f.den > 0 THEN RoundHalfEven(f.num, f.den) ELSE RoundHalfEven(-f.num, -f.den)

---------------------------------------------------------------------------
(* My_Fraction.set_from_string, utils.py lines 110-157 *)

\* The object after the call and the exception raised.  An assignment made
\* before a later int() raises stays made.
set_from_string(self, s) ==
    LET Raise(e, f) == [exc |-> e, self |-> f]
        Done(f) == [exc |-> NoExc, self |-> f]
        \* lines 138-142: denom = sp[1].split(None)
        SetDenominator(f, denom) ==
            IF Len(denom) # 1 THEN Raise("ValueError", f)
            ELSE LET Set(d) ==
                         IF d.exc # NoExc THEN Raise(d.exc, f)
                         ELSE Done([f EXCEPT !.denominator = PyInt(d.v)])
                 IN Set(py_int(denom[1]))
        \* lines 130-137: whole_num = sp[0].split(None)
        WholeNum(base, sp, whole_num) ==
            IF Len(whole_num) = 1
            THEN LET Numer(n) ==
                         IF n.exc # NoExc THEN Raise(n.exc, base)
                         ELSE SetDenominator([base EXCEPT !.numerator = n.v],
                                             SplitNone(sp[2]))
                 IN Numer(py_int(whole_num[1]))
            ELSE IF Len(whole_num) = 2
            THEN LET Both(w, n) ==
                         IF w.exc # NoExc THEN Raise(w.exc, base)
                         ELSE IF n.exc # NoExc
                         THEN Raise(n.exc, [base EXCEPT !.whole = w.v])
                         ELSE SetDenominator([base EXCEPT !.whole = w.v,
                                                          !.numerator = n.v],
                                             SplitNone(sp[2]))
                 IN Both(py_int(whole_num[1]), py_int(whole_num[2]))
            ELSE Raise("ValueError", base)
        \* lines 122-146: no decimal point
        Fractional(base, sp) ==
            IF Len(sp) = 2 THEN WholeNum(base, sp, SplitNone(sp[1]))
            ELSE IF Len(sp) = 1
            THEN LET Whole(w) ==
                         IF w.exc # NoExc THEN Raise(w.exc, base)
                         ELSE Done([base EXCEPT !.whole = w.v])
                 IN Whole(py_int(sp[1]))
            ELSE Raise("ValueError", base)
        \* lines 147-157: a decimal point at dotloc
        Decimal(base, whole, rest) ==
            LET Parts(w, n) ==
                    IF w.exc # NoExc THEN Raise(w.exc, base)
                    ELSE IF rest = <<>> THEN Done([base EXCEPT !.whole = w.v])
                    ELSE IF n.exc # NoExc
                    THEN Raise(n.exc, [base EXCEPT !.whole = w.v])
                    ELSE reduce([base EXCEPT !.whole = w.v,
                                             !.numerator = n.v,
                                             !.denominator = PyInt(Pow10(Len(rest)))])
            IN Parts(IF whole = <<>> THEN [exc |-> NoExc, v |-> 0] ELSE py_int(whole),
                     py_int(rest))
        Body(base, dotloc, sep) ==
            IF dotloc = 0
            THEN IF sep.ty # "str" THEN Raise("TypeError", base)
                 ELSE Fractional(base,
                                 Split(IF sep.v # <<" ">>
                                       THEN ReplaceFirst(s, sep.v, <<" ">>)
                                       ELSE s, "/"))
            ELSE Decimal(base, Strip(SubSeq(s, 1, dotloc - 1)),
                         Strip(SubSeq(s, dotloc + 1, Len(s))))
    IN Body([self EXCEPT !.whole = 0, !.numerator = 0, !.denominator = PyInt(1)],
            Find(s, "."), self.english_separator)

---------------------------------------------------------------------------
(* Units, utils.py lines 160-293 *)

\* mm_per_inch = 25.4, in tenths
mm_per_inch_x10 == 254

allow_denoms == {1, 2, 4, 8, 16, 32, 64}

\* Units.__init__ with every parameter bound: the object, and the value it
\* assigns to the class attribute Units.quant (decimal places: 2 for
\* Decimal('0.01'), 3 for Decimal('0.001')).
Units(english_separator, metric, num_increments, transl) ==
    LET n == IF num_increments.ty = "None"
             THEN (IF metric THEN 1 ELSE 32)
             ELSE num_increments.v
    IN [self |-> [english_separator |-> english_separator,
                  metric |-> metric,
                  transl |-> transl,
                  num_increments |-> n,
                  increments_per_inch |->
                      IF metric THEN [num |-> mm_per_inch_x10 * n, den |-> 10]
                      ELSE [num |-> n, den |-> 1]],
        quant |-> IF metric THEN 2 ELSE 3]

\* '%g' % d for the Decimal d = k / 10^places, 0 <= k < 10^6: the shortest
\* digits, without trailing zeros or a trailing point.
RECURSIVE StripZeros(_)
StripZeros(s) ==
    IF s # <<>> /\ s[Len(s)] = "0" THEN StripZeros(SubSeq(s, 1, Len(s) - 1)) ELSE s

RECURSIVE ZeroPad(_, _)
ZeroPad(s, width) == IF Len(s) >= width THEN s ELSE ZeroPad(<<"0">> \o s, width)

FormatG(k, places) ==
    LET m == Abs(k)
        ip == NatToStr(m \div Pow10(places))
        fp == StripZeros(ZeroPad(NatToStr(m % Pow10(places)), places))
    IN (IF k < 0 THEN <<"-">> ELSE <<>>)
       \o ip \o (IF fp = <<>> THEN <<>> ELSE <<".">> \o fp)

\* '%.3f' % (n / float(d)) for d > 0
Format3f(n, d) ==
    LET m == RoundHalfEven(1000 * Abs(n), d)
    IN (IF n < 0 THEN <<"-">> ELSE <<>>)
       \o NatToStr(m \div 1000) \o <<".">> \o ZeroPad(NatToStr(m % 1000), 3)

\* increments_to_string() with the fraction path taken for every denominator.
increments_to_string_any_denom(self, quant, increments) ==
    LET r == to_string(My_Fraction(self.english_separator, 0, increments,
                                   PyInt(self.increments_per_inch.num)))
    IN [exc |-> r.exc, s |-> r.s]

\* Units.increments_to_string(increments) for an int increments, read with
\* the class attribute Units.quant at the value quant: the string and the
\* exception raised.
increments_to_string(self, quant, increments) ==
    IF self.metric
    THEN [exc |-> NoExc,
          s |-> FormatG(RoundHalfEven(increments * Pow10(quant), self.num_increments),
                        quant)]
    ELSE LET numer == increments
             denom == self.increments_per_inch.num
             frac0 == My_Fraction(self.english_separator, 0, numer, PyInt(denom))
             red == reduce(frac0)
             f == red.self
         IN IF red.exc # NoExc THEN [exc |-> red.exc, s |-> <<>>]
            ELSE IF f.numerator # 0 /\ f.denominator.v \notin allow_denoms
            THEN [exc |-> NoExc, s |-> Format3f(increments, self.num_increments)]
            ELSE LET r == to_string(f) IN [exc |-> r.exc, s |-> r.s]

\* Units.string_to_float(s): the float, as the rational num/den.
string_to_float(self, s) ==
    LET Value(exc, f) ==
            IF exc # NoExc THEN [exc |-> exc, num |-> 0, den |-> 1]
            ELSE IF f.numerator > 0
            THEN IF f.denominator.v = 0
                 THEN [exc |-> "ZeroDivisionError", num |-> 0, den |-> 1]
                 ELSE [exc |-> NoExc,
                       num |-> f.whole * f.denominator.v + f.numerator,
                       den |-> f.denominator.v]
            ELSE [exc |-> NoExc, num |-> f.whole, den |-> 1]
        Parsed(r) == Value(r.exc, r.self)
    IN Parsed(set_from_string(My_Fraction(self.english_separator, 0, 0, PyNone), s))

\* Units.length_to_increments(v) with as_integer=True
length_to_increments(self, v) ==
    my_round([num |-> v.num * self.num_increments, den |-> v.den])

\* Units.string_to_increments(s) with as_integer=True
string_to_increments(self, s) ==
    LET Increments(v) ==
            IF v.exc # NoExc THEN [exc |-> v.exc, v |-> 0]
            ELSE [exc |-> NoExc, v |-> length_to_increments(self, v)]
    IN Increments(string_to_float(self, s))

---------------------------------------------------------------------------
(* serialize.py *)

\* utils.VERSION = '0.9.4'
VERSION == <<"0", ".", "9", ".", "4">>

\* The parameters of Units.__init__ after self, in order.
UnitsParams == <<"english_separator", "metric", "num_increments", "transl">>

\* A call Units(*args, **kwargs): Python binds the arguments to the
\* parameters of __init__ and raises TypeError when english_separator, the
\* one parameter without a default, gets no value.
Units_call(args, kwargs) ==
    LET Given(i) == i <= Len(args) \/ UnitsParams[i] \in DOMAIN kwargs
        Arg(i, default) ==
            IF i <= Len(args) THEN args[i]
            ELSE IF UnitsParams[i] \in DOMAIN kwargs THEN kwargs[UnitsParams[i]]
            ELSE default
    IN IF ~Given(1) THEN [exc |-> "TypeError"]
       ELSE LET u == Units(Arg(1, PyNone), Arg(2, PyBool(FALSE)).v,
                           Arg(3, PyNone), Arg(4, PyNone))
            IN [exc |-> NoExc, self |-> u.self, quant |-> u.quant]

\* router.Router_Bit(units, width, depth, angle)
Router_Bit(units, width, depth, angle) ==
    [units |-> units, width |-> width, depth |-> depth, angle |-> angle]

\* router.Board(bit, width)
Board(bit, width) == [bit |-> bit, width |-> width]

\* spacing.Edit_Spaced, Equally_Spaced and Variable_Spaced(bit, boards,
\* config): the object, with the set_cuts calls made on it so far.
Spacing(class, bit, boards, config) ==
    [class |-> class, bit |-> bit, boards |-> boards, params |-> PyNone,
     set_cuts |-> <<>>]

\* sp.set_cuts(*args): the call is recorded with its arguments.
set_cuts(sp, args) == [sp EXCEPT !.set_cuts = Append(@, args)]

Edit == <<"E", "d", "i", "t">>
Equa == <<"E", "q", "u", "a">>

\* description[0:4]
First4(description) ==
    SubSeq(description, 1, IF Len(description) < 4 THEN Len(description) ELSE 4)

\* serialize(bit, boards, sp, config): the values dumped, in order.
serialize(bit, boards, sp, config) ==
    LET units == bit.units
        sp_type == First4(sp.description)
    IN <<PyStr(VERSION), PyBool(units.metric)>>
       \o (IF ~units.metric THEN <<PyInt(units.increments_per_inch.num)>> ELSE <<>>)
       \o <<PyInt(bit.width), PyInt(bit.depth), PyInt(bit.angle)>>
       \o <<PyInt(Len(boards)), PyInt(boards[1].width)>>
       \o <<PyStr(sp_type)>>
       \o (IF sp_type = Edit THEN <<sp.cuts>> ELSE <<sp.params>>)

\* unserialize(s, config): the tuple returned, the exception raised, and the
\* value the Units constructor left in Units.quant (0: none was constructed).
unserialize(s, config) ==
    LET metric == s[2].v
        made == IF metric THEN Units_call(<<>>, [metric |-> PyBool(TRUE)])
                ELSE Units_call(<<s[3]>>, <<>>)
        at == IF metric THEN 3 ELSE 4
        bit == Router_Bit(made.self, s[at].v, s[at + 1].v, s[at + 2].v)
        nb == s[at + 3].v
        width == s[at + 4].v
        boards == [i \in 1..nb |-> Board(bit, width)]
        sp_type == s[at + 5].v
        payload == s[at + 6]
        sp == IF sp_type = Edit
              THEN set_cuts(Spacing("Edit_Spaced", bit, boards, config), <<payload>>)
              ELSE LET sp0 == IF sp_type = Equa
                              THEN Spacing("Equally_Spaced", bit, boards, config)
                              ELSE Spacing("Variable_Spaced", bit, boards, config)
                   IN set_cuts([sp0 EXCEPT !.params = payload], <<>>)
    IN IF made.exc # NoExc THEN [exc |-> made.exc, quant |-> 0]
       ELSE [exc |-> NoExc, quant |-> made.quant,
             bit |-> bit, boards |-> boards, sp |-> sp, sp_type |-> sp_type]

---------------------------------------------------------------------------
(* print_table, utils.py lines 377-455 *)

labels == <<"B", "C", "D", "E", "F">>

\* Lines 383-400 with boards[2] taken before boards[3].
load_columns_2_first(bs) ==
    LET caul2 == IF bs[3].active THEN <<bs[3].top_cuts, bs[3].bottom_cuts>> ELSE <<>>
        caul3 == IF bs[4].active THEN <<bs[4].top_cuts, bs[4].bottom_cuts>> ELSE <<>>
        all_cuts == <<bs[1].bottom_cuts>> \o caul2 \o caul3 \o <<bs[2].top_cuts>>
    IN [all_cuts |-> all_cuts,
        label_cuts |-> <<"A">> \o SubSeq(labels, 1, Len(all_cuts) - 1)]

\* Lines 383-400: the cuts and labels to be printed.  bs[k + 1] is the
\* code's boards[k].
load_columns(bs) ==
    LET i3 == IF bs[4].active THEN 2 ELSE 0
        i == i3 + (IF bs[3].active THEN 2 ELSE 0)
        caul3 == IF bs[4].active THEN <<bs[4].top_cuts, bs[4].bottom_cuts>> ELSE <<>>
        label3 == IF bs[4].active THEN <<labels[1], labels[2]>> ELSE <<>>
        caul2 == IF bs[3].active THEN <<bs[3].top_cuts, bs[3].bottom_cuts>> ELSE <<>>
        label2 == IF bs[3].active THEN <<labels[i3 + 1], labels[i3 + 2]>> ELSE <<>>
    IN [all_cuts |-> <<bs[1].bottom_cuts>> \o caul3 \o caul2 \o <<bs[2].top_cuts>>,
        label_cuts |-> <<"A">> \o label3 \o label2 \o <<labels[i + 1]>>]

\* Lines 434-452 with the passes of a cut read front to back.
column_step_forward(cuts, label_cut, width, units, quant, st) ==
    IF st.cut_index < 0
    THEN [exc |-> NoExc, st |-> st, printing |-> FALSE,
          cell |-> [label |-> <<"*", "*">>, dim |-> <<"*", "*">>]]
    ELSE LET c == cuts[st.cut_index + 1]
             np == Len(c.passes)
             pi == st.pass_index
             total == st.total_passes + 1
             dim == increments_to_string(units, quant, width - c.passes[pi + 1])
             done == pi + 1 = np
             Raise(e) == [exc |-> e, st |-> [st EXCEPT !.total_passes = total],
                          printing |-> FALSE, cell |-> [label |-> <<>>, dim |-> <<>>]]
         IN IF np = 0 THEN Raise("IndexError")
            ELSE IF dim.exc # NoExc THEN Raise(dim.exc)
            ELSE [exc |-> NoExc,
                  st |-> [cut_index |-> IF done THEN st.cut_index - 1 ELSE st.cut_index,
                          pass_index |-> IF done THEN 0 ELSE pi + 1,
                          total_passes |-> total],
                  printing |-> TRUE,
                  cell |-> [label |-> FormatD(total) \o <<label_cut>>, dim |-> dim.s]]

\* Lines 434-452 with the cut left after its first pass.
column_step_one_pass(cuts, label_cut, width, units, quant, st) ==
    IF st.cut_index < 0
    THEN [exc |-> NoExc, st |-> st, printing |-> FALSE,
          cell |-> [label |-> <<"*", "*">>, dim |-> <<"*", "*">>]]
    ELSE LET c == cuts[st.cut_index + 1]
             np == Len(c.passes)
             total == st.total_passes + 1
             dim == increments_to_string(units, quant, width - c.passes[np])
             Raise(e) == [exc |-> e, st |-> [st EXCEPT !.total_passes = total],
                          printing |-> FALSE, cell |-> [label |-> <<>>, dim |-> <<>>]]
         IN IF np = 0 THEN Raise("IndexError")
            ELSE IF dim.exc # NoExc THEN Raise(dim.exc)
            ELSE [exc |-> NoExc,
                  st |-> [cut_index |-> st.cut_index - 1, pass_index |-> 0,
                          total_passes |-> total],
                  printing |-> TRUE,
                  cell |-> [label |-> FormatD(total) \o <<label_cut>>, dim |-> dim.s]]

\* Lines 434-452, the body of the loop over the columns, for one column
\* whose cursor st is [cut_index, pass_index, total_passes]: the cursor
\* after it, the cell, whether it set printing, and the exception raised.
\* c.passes[np - pi - 1] with np = 0 is c.passes[-1] of an empty list:
\* IndexError, after total_passes was incremented.
column_step(cuts, label_cut, width, units, quant, st) ==
    IF st.cut_index < 0
    THEN [exc |-> NoExc, st |-> st, printing |-> FALSE,
          cell |-> [label |-> <<"*", "*">>, dim |-> <<"*", "*">>]]
    ELSE LET c == cuts[st.cut_index + 1]
             np == Len(c.passes)
             pi == st.pass_index
             total == st.total_passes + 1
             dim == increments_to_string(units, quant, width - c.passes[np - pi])
             done == pi + 1 = np
             Raise(e) == [exc |-> e, st |-> [st EXCEPT !.total_passes = total],
                          printing |-> FALSE, cell |-> [label |-> <<>>, dim |-> <<>>]]
         IN IF np = 0 THEN Raise("IndexError")
            ELSE IF dim.exc # NoExc THEN Raise(dim.exc)
            ELSE [exc |-> NoExc,
                  st |-> [cut_index |-> IF done THEN st.cut_index - 1 ELSE st.cut_index,
                          pass_index |-> IF done THEN 0 ELSE pi + 1,
                          total_passes |-> total],
                  printing |-> TRUE,
                  cell |-> [label |-> FormatD(total) \o <<label_cut>>, dim |-> dim.s]]

\* Lines 433-452 for the columns from j on: the columns are visited in
\* order, and a column that raises ends the visit with the columns after it
\* untouched.  The result is the cursors, the cells, whether printing was
\* set, and the exception raised.
RECURSIVE visit_columns(_, _, _, _, _, _, _)
visit_columns(all_cuts, label_cuts, width, units, quant, cursor, j) ==
    IF j > Len(all_cuts)
    THEN [exc |-> NoExc, cursor |-> <<>>, printing |-> FALSE, line |-> <<>>]
    ELSE \* the set binds the column's step to one evaluation
         LET one == {column_step(all_cuts[j], label_cuts[j], width, units, quant,
                                 cursor[j])}
         IN CHOOSE r \in
                {IF c.exc # NoExc
                 THEN [exc |-> c.exc,
                       cursor |-> <<c.st>> \o SubSeq(cursor, j + 1, Len(cursor)),
                       printing |-> FALSE,
                       line |-> <<>>]
                 ELSE LET rest == {visit_columns(all_cuts, label_cuts, width, units,
                                                 quant, cursor, j + 1)}
                      IN CHOOSE q \in
                             {[exc |-> t.exc,
                               cursor |-> <<c.st>> \o t.cursor,
                               printing |-> c.printing \/ t.printing,
                               line |-> IF t.exc # NoExc THEN <<>>
                                        ELSE <<c.cell>> \o t.line] : t \in rest} : TRUE
                 : c \in one} : TRUE

\* Lines 430-452, one pass of the while loop's body up to the write.
print_row(all_cuts, label_cuts, width, units, quant, cursor) ==
    visit_columns(all_cuts, label_cuts, width, units, quant, cursor, 1)

---------------------------------------------------------------------------
(* The parts of the state a specification leaves alone *)

FracIdle ==
    /\ frac = My_Fraction(PyStr(<<" ">>), 0, 0, PyNone)
    /\ fprev = frac
    /\ fops = <<>>
    /\ fres = [exc |-> NoExc, s |-> <<>>]

LenIdle ==
    /\ lunits = Units(PyStr(<<" ">>), FALSE, PyNone, PyNone).self
    /\ lv = 0
    /\ lstr = [exc |-> NoExc, s |-> <<>>]
    /\ lback = [exc |-> NoExc, v |-> 0]
    /\ lpc = "start"

UnitsIdle ==
    /\ uinsts = <<>>
    /\ ucalls = <<>>

NoLocals ==
    [all_cuts |-> <<>>, label_cuts |-> <<>>, cursor |-> <<>>, printing |-> FALSE,
     exc |-> NoExc]

NoFile == [state |-> "none", header |-> 0, rows |-> <<>>]

TblIdle ==
    /\ tboards = <<>>
    /\ tloc = NoLocals
    /\ fd = NoFile
    /\ tpc = "start"

SerIdle ==
    /\ design = [config |-> [debug |-> FALSE]]
    /\ stream = <<>>
    /\ loaded = [exc |-> NoExc, quant |-> 0]
    /\ spc = "start"

---------------------------------------------------------------------------
(* Saved designs: every design of the bounded sets is serialized, and the  *)
(* stream is unserialized.                                                 *)

\* The first characters of the descriptions of the three spacing classes
\* and of two descriptions no class has.
Descriptions ==
    {<<"E", "d", "i", "t", " ", "s", "p", "a", "c", "i", "n", "g">>,
     <<"E", "q", "u", "a", "l", "l", "y", " ", "s", "p", "a", "c", "e", "d">>,
     <<"V", "a", "r", "i", "a", "b", "l", "e", " ", "S", "p", "a", "c", "e", "d">>,
     <<"E", "d", "i">>,
     <<"C", "u", "s", "t", "o", "m">>}

\* A cut as its limits and its passes.
DesignCuts ==
    LET c1 == [xmin |-> 0, xmax |-> 6, passes |-> <<3>>]
        c2 == [xmin |-> 12, xmax |-> 20, passes |-> <<15, 17>>]
    IN {[ty |-> "list", v |-> <<>>], [ty |-> "list", v |-> <<c1>>],
        [ty |-> "list", v |-> <<c1, c2>>], [ty |-> "list", v |-> <<c2, c1>>]}

DesignParams ==
    {[ty |-> "dict", v |-> [Spacing |-> 0, Width |-> 8, Centered |-> TRUE]],
     [ty |-> "dict", v |-> [Spacing |-> 2, Width |-> 6, Centered |-> FALSE]],
     [ty |-> "dict", v |-> [Fingers |-> 5]]}

DesignUnits ==
    {Units(PyStr(<<" ">>), m, PyInt(n), PyNone) :
        m \in BOOLEAN, n \in {1, 32, 64, 96}}

SerInit ==
    /\ \E u \in DesignUnits, angle \in {0, 14}, nb \in {2, 4}, width \in {64, 128},
          d \in Descriptions, cuts \in DesignCuts, params \in DesignParams :
          LET bit == Router_Bit(u.self, 16, 24, angle)
          IN /\ design = [bit |-> bit,
                          boards |-> [i \in 1..nb |-> Board(bit, width)],
                          sp |-> [description |-> d, cuts |-> cuts, params |-> params],
                          config |-> [debug |-> FALSE]]
             /\ Units_quant = u.quant
    /\ stream = <<>>
    /\ loaded = [exc |-> NoExc, quant |-> 0]
    /\ spc = "start"
    /\ FracIdle
    /\ LenIdle
    /\ UnitsIdle
    /\ TblIdle

Serialize ==
    /\ spc = "start"
    /\ stream' = serialize(design.bit, design.boards, design.sp, design.config)
    /\ spc' = "saved"
    /\ UNCHANGED <<Units_quant, design, loaded, fracVars, lenVars, unitVars, tblVars>>

Unserialize ==
    /\ spc = "saved"
    /\ loaded' = unserialize(stream, design.config)
    /\ Units_quant' = IF loaded'.quant = 0 THEN Units_quant ELSE loaded'.quant
    /\ spc' = "loaded"
    /\ UNCHANGED <<design, stream, fracVars, lenVars, unitVars, tblVars>>

SerNext == Serialize \/ Unserialize

SpecSer == SerInit /\ [][SerNext]_vars

SavedTag == First4(design.sp.description)

SavedUnits == design.bit.units

\* C1: unserialize(serialize(...)) returns, for metric and non-metric units
\* alike, a spacing object that for the tag 'Edit' was given the original
\* cuts through set_cuts(cuts) and nothing else, and for every other tag has
\* the original params and was told set_cuts() with no argument.
C1_RoundTrip ==
    spc = "loaded" =>
        /\ loaded.exc = NoExc
        /\ IF SavedTag = Edit
           THEN loaded.sp.set_cuts = <<(<<design.sp.cuts>>)>>
           ELSE /\ loaded.sp.params = design.sp.params
                /\ loaded.sp.set_cuts = <<(<<>>)>>

\* C2: the Units object of the returned bit has the saved metric flag, and
\* for a non-metric design the stored increments_per_inch and a separator
\* that is a string.
C2_UnitsRestored ==
    spc = "loaded" =>
        /\ loaded.exc = NoExc
        /\ loaded.bit.units.metric = SavedUnits.metric
        /\ ~SavedUnits.metric =>
               /\ loaded.bit.units.increments_per_inch = SavedUnits.increments_per_inch
               /\ loaded.bit.units.english_separator.ty = "str"

\* C3: the tag 'Edit' yields an Edit_Spaced object, 'Equa' an Equally_Spaced
\* object, every other tag a Variable_Spaced object with the params loaded
\* and set_cuts() called with no argument; no tag value produces an error,
\* and the tag is returned unchanged as the fourth element.
C3_TagDispatch ==
    spc = "loaded" =>
        /\ loaded.exc = NoExc
        /\ loaded.sp.class = (IF SavedTag = Edit THEN "Edit_Spaced"
                              ELSE IF SavedTag = Equa THEN "Equally_Spaced"
                              ELSE "Variable_Spaced")
        /\ SavedTag # Edit =>
               /\ loaded.sp.params = design.sp.params
               /\ loaded.sp.set_cuts = <<(<<>>)>>
        /\ loaded.sp_type = SavedTag

\* What unserialize does on the streams it gets through: the same three
\* statements for every design saved with non-metric units.
SerNonMetricDispatch ==
    (spc = "loaded" /\ ~SavedUnits.metric) =>
        /\ loaded.exc = NoExc
        /\ loaded.sp_type = SavedTag
        /\ loaded.sp.class = (IF SavedTag = Edit THEN "Edit_Spaced"
                              ELSE IF SavedTag = Equa THEN "Equally_Spaced"
                              ELSE "Variable_Spaced")
        /\ IF SavedTag = Edit
           THEN loaded.sp.set_cuts = <<(<<design.sp.cuts>>)>>
           ELSE /\ loaded.sp.params = design.sp.params
                /\ loaded.sp.set_cuts = <<(<<>>)>>

\* And on every design saved with metric units: TypeError, nothing returned.
SerMetricRaises ==
    (spc = "loaded" /\ SavedUnits.metric) => loaded.exc = "TypeError"

---------------------------------------------------------------------------
(* Pass tables: print_table runs on four boards whose cut lists are drawn  *)
(* from the bounded shapes below.                                          *)

MaxCuts == 2
MaxPasses == 2

\* The number of passes of each cut of a cut list; a cut with no pass is a
\* shape too.
Shapes == UNION {[1..n -> 0..MaxPasses] : n \in 0..MaxCuts}

\* Cuts of the given shape; the offsets of the passes step away from base
\* in the direction dir (1: rising along the list, -1: falling), so that
\* they are distinct within a list.
MakeCuts(shape, base, dir) ==
    [c \in 1..Len(shape) |->
        [passes |-> [q \in 1..shape[c] |-> base + dir * (5 * c + q)]]]

TableUnits ==
    {Units(PyStr(<<" ">>), FALSE, PyNone, [ty |-> "object", v |-> 0]),
     Units(PyStr(<<" ">>), TRUE, PyInt(8), [ty |-> "object", v |-> 0])}

TableInit ==
    /\ \E u \in TableUnits, sa \in Shapes, sb \in Shapes,
          a2 \in BOOLEAN, a3 \in BOOLEAN :
          /\ tboards =
                <<[active |-> TRUE, width |-> 64, units |-> u.self,
                   top_cuts |-> <<>>, bottom_cuts |-> MakeCuts(sa, 32, 1)],
                  [active |-> TRUE, width |-> 64, units |-> u.self,
                   top_cuts |-> MakeCuts(sb, 30, -1), bottom_cuts |-> <<>>],
                  [active |-> a2, width |-> 64, units |-> u.self,
                   top_cuts |-> MakeCuts(<<2>>, 28, 1),
                   bottom_cuts |-> MakeCuts(<<1, 1>>, 26, -1)],
                  [active |-> a3, width |-> 64, units |-> u.self,
                   top_cuts |-> MakeCuts(<<1>>, 24, 1),
                   bottom_cuts |-> MakeCuts(<<1, 2>>, 22, -1)]>>
          /\ Units_quant = u.quant
    /\ tloc = NoLocals
    /\ fd = NoFile
    /\ tpc = "start"
    /\ FracIdle
    /\ LenIdle
    /\ UnitsIdle
    /\ SerIdle

\* Lines 382-425: the columns are assembled, the file is opened, the title
\* and the header are written and the cursors are set on the last cuts.
TableSetup ==
    /\ tpc = "start"
    /\ LET cols == load_columns(tboards)
       IN /\ tloc' = [all_cuts |-> cols.all_cuts,
                      label_cuts |-> cols.label_cuts,
                      cursor |-> [j \in 1..Len(cols.all_cuts) |->
                                     [cut_index |-> Len(cols.all_cuts[j]) - 1,
                                      pass_index |-> 0,
                                      total_passes |-> 0]],
                      printing |-> TRUE,
                      exc |-> NoExc]
          /\ fd' = [state |-> "open", header |-> Len(cols.label_cuts), rows |-> <<>>]
    /\ tpc' = "loop"
    /\ UNCHANGED <<Units_quant, tboards, fracVars, lenVars, unitVars, serVars>>

\* Lines 429-454: one pass of the while loop.
TableRow ==
    /\ tpc = "loop"
    /\ tloc.printing
    /\ \E r \in {print_row(tloc.all_cuts, tloc.label_cuts, tboards[1].width,
                            tboards[1].units, Units_quant, tloc.cursor)} :
          /\ tloc' = [tloc EXCEPT !.cursor = r.cursor, !.printing = r.printing,
                                  !.exc = r.exc]
          /\ fd' = IF r.exc = NoExc /\ r.printing
                   THEN [fd EXCEPT !.rows = Append(@, r.line)]
                   ELSE fd
          /\ tpc' = IF r.exc = NoExc THEN "loop" ELSE "raised"
    /\ UNCHANGED <<Units_quant, tboards, fracVars, lenVars, unitVars, serVars>>

\* Line 455: fd.close()
TableClose ==
    /\ tpc = "loop"
    /\ ~tloc.printing
    /\ fd' = [fd EXCEPT !.state = "closed"]
    /\ tpc' = "done"
    /\ UNCHANGED <<Units_quant, tboards, tloc, fracVars, lenVars, unitVars, serVars>>

TableNext == TableSetup \/ TableRow \/ TableClose

SpecTable == TableInit /\ [][TableNext]_vars

\* Line 414: open(filename, 'w') raises; no file was opened.
TableOpenFails ==
    /\ tpc = "start"
    /\ tloc' = [tloc EXCEPT !.exc = "IOError"]
    /\ tpc' = "raised"
    /\ UNCHANGED <<Units_quant, tboards, fd, fracVars, lenVars, unitVars, serVars>>

\* Lines 382-416: the columns are assembled and the file is opened; the
\* write of the title or of the header raises.  No statement handles the
\* exception: print_table is left by it.
TableHeaderWriteFails ==
    /\ tpc = "start"
    /\ LET cols == load_columns(tboards)
       IN tloc' = [tloc EXCEPT !.all_cuts = cols.all_cuts,
                               !.label_cuts = cols.label_cuts,
                               !.exc = "IOError"]
    /\ fd' = [fd EXCEPT !.state = "open"]
    /\ tpc' = "raised"
    /\ UNCHANGED <<Units_quant, tboards, fracVars, lenVars, unitVars, serVars>>

\* Lines 429-454: one pass of the while loop whose fd.write(line) raises.
TableRowWriteFails ==
    /\ tpc = "loop"
    /\ tloc.printing
    /\ \E r \in {print_row(tloc.all_cuts, tloc.label_cuts, tboards[1].width,
                            tboards[1].units, Units_quant, tloc.cursor)} :
          /\ r.exc = NoExc
          /\ r.printing
          /\ tloc' = [tloc EXCEPT !.cursor = r.cursor, !.printing = r.printing,
                                  !.exc = "IOError"]
    /\ tpc' = "raised"
    /\ UNCHANGED <<Units_quant, tboards, fd, fracVars, lenVars, unitVars, serVars>>

\* print_table with the file operations that can raise.
TableIONext ==
    \/ TableNext
    \/ TableOpenFails
    \/ TableHeaderWriteFails
    \/ TableRowWriteFails

SpecTableIO == TableInit /\ [][TableIONext]_vars

---------------------------------------------------------------------------
(* Claims about print_table *)

AllLabels == <<"A", "B", "C", "D", "E", "F">>

\* C4: the columns are boards[0].bottom_cuts, then top and bottom cuts of
\* boards[3] if active, then top and bottom cuts of boards[2] if active, then
\* boards[1].top_cuts, labelled A, B, ... in that order; there are 2, 4 or 6
\* columns, and exactly the two columns A and B with both caul boards
\* inactive.
C4_ColumnAssembly ==
    tpc # "start" =>
        LET b == tboards
            want == <<b[1].bottom_cuts>>
                    \o (IF b[4].active THEN <<b[4].top_cuts, b[4].bottom_cuts>> ELSE <<>>)
                    \o (IF b[3].active THEN <<b[3].top_cuts, b[3].bottom_cuts>> ELSE <<>>)
                    \o <<b[2].top_cuts>>
        IN /\ tloc.all_cuts = want
           /\ tloc.label_cuts = SubSeq(AllLabels, 1, Len(want))
           /\ Len(tloc.all_cuts) \in {2, 4, 6}
           /\ fd.header = Len(tloc.all_cuts)
           /\ (~b[3].active /\ ~b[4].active) =>
                  /\ tloc.all_cuts = <<b[1].bottom_cuts, b[2].top_cuts>>
                  /\ tloc.label_cuts = <<"A", "B">>

\* Both caul boards are active: six columns have been assembled.
C4_Witness ==
    /\ tpc = "loop"
    /\ tboards[3].active
    /\ tboards[4].active
    /\ Len(tloc.all_cuts) = 6
    /\ tloc.all_cuts[1] # <<>>
    /\ tloc.all_cuts[6] # <<>>

RECURSIVE SumPasses(_)
SumPasses(cuts) ==
    IF cuts = <<>> THEN 0
    ELSE Len(cuts[Len(cuts)].passes) + SumPasses(SubSeq(cuts, 1, Len(cuts) - 1))

Columns == 1..Len(tloc.all_cuts)

Largest ==
    CHOOSE m \in {SumPasses(tloc.all_cuts[j]) : j \in Columns} :
        \A j \in Columns : SumPasses(tloc.all_cuts[j]) <= m

Filler == [label |-> <<"*", "*">>, dim |-> <<"*", "*">>]

EveryCutHasAPass ==
    \A j \in Columns : \A c \in 1..Len(tloc.all_cuts[j]) :
        Len(tloc.all_cuts[j][c].passes) >= 1

\* The loop has not raised; no more rows are written than the largest pass
\* count of a column, and exactly that many once the loop stops printing;
\* row r shows the filler in a column exactly when r is beyond that
\* column's passes.
RowsAndFillers ==
    /\ tpc # "raised"
    /\ Len(fd.rows) <= Largest
    /\ (tpc = "loop" /\ tloc.printing) \/ Len(fd.rows) = Largest
    /\ \A r \in 1..Len(fd.rows) : \A j \in Columns :
          (fd.rows[r][j] = Filler) <=> (r > SumPasses(tloc.all_cuts[j]))

\* C5 as stated: for any cut lists, the loop terminates having written as
\* many rows as the largest total pass count of a column, and a column shows
\* the filler in a row if and only if all its passes were emitted in earlier
\* rows.
C5_RowsAnyCuts == tpc # "start" => RowsAndFillers

\* C5 amended: the same for cut lists in which every cut has at least one
\* pass.
C5_RowsAndFillers == (tpc # "start" /\ EveryCutHasAPass) => RowsAndFillers

\* A table is complete whose columns ran out at different rows.
C5_Witness ==
    /\ tpc = "done"
    /\ EveryCutHasAPass
    /\ Len(fd.rows) >= 3
    /\ \E j \in Columns : SumPasses(tloc.all_cuts[j]) = 1
    /\ \E j \in Columns : SumPasses(tloc.all_cuts[j]) = 2
    /\ fd.rows[Len(fd.rows)][1] = Filler

RECURSIVE Reverse(_)
Reverse(q) == IF q = <<>> THEN <<>> ELSE <<q[Len(q)]>> \o Reverse(SubSeq(q, 1, Len(q) - 1))

\* The pass offsets of a cut list, last cut first and, within a cut, last
\* pass first.
RECURSIVE BackToFront(_)
BackToFront(cuts) ==
    IF cuts = <<>> THEN <<>>
    ELSE Reverse(cuts[Len(cuts)].passes) \o BackToFront(SubSeq(cuts, 1, Len(cuts) - 1))

\* The cells of column j as its own cut list fixes them: the k-th is
\* labelled k and the column's letter and shows width - offset.
OwnCells(j) ==
    LET offs == BackToFront(tloc.all_cuts[j])
    IN [k \in 1..Len(offs) |->
           [label |-> NatToStr(k) \o <<AllLabels[j]>>,
            dim |-> increments_to_string(tboards[1].units, Units_quant,
                                         tboards[1].width - offs[k]).s]]

IsCell(c) == c # Filler

PrintedCells(j) == SelectSeq([r \in 1..Len(fd.rows) |-> fd.rows[r][j]], IsCell)

\* C9: in every column the cells that are not fillers, read top to bottom,
\* are the passes of that column's cuts from the last cut to the first and
\* from the last pass to the first within a cut, the k-th labelled k and the
\* column's letter and showing increments_to_string(width - offset); they
\* are fixed by the column's own cut list alone.
C9_ColumnOrder ==
    tpc # "start" =>
        \A j \in Columns :
            LET own == OwnCells(j)
                got == PrintedCells(j)
            IN /\ Len(got) <= Len(own)
               /\ got = SubSeq(own, 1, Len(got))
               /\ tpc = "done" => got = own

\* A finished table with a column of two cuts, the last of them with two
\* passes, beside a column of another length.
C9_Witness ==
    /\ tpc = "done"
    /\ Len(tloc.all_cuts[1]) = 2
    /\ Len(tloc.all_cuts[1][2].passes) = 2
    /\ Len(tloc.all_cuts[1][1].passes) = 1
    /\ Len(PrintedCells(1)) = 3
    /\ Len(PrintedCells(2)) # 3

(* print_table's file, utils.py lines 414-455 *)

\* print_table has been left, by its return or by an exception.
TableLeft == tpc \in {"done", "raised"}

\* C11: the report file is closed on every exit path of print_table; no
\* execution leaves print_table, by its return or by an exception raised
\* while a row is formatted or written, with the file still open.
C11_FileClosedOnEveryExit == TableLeft => fd.state # "open"

\* The return of print_table leaves the file closed, and the file is open
\* only between line 414 and an exit.
TableClosedOnReturn ==
    /\ tpc = "done" => fd.state = "closed"
    /\ tpc = "start" => fd.state = "none"
    /\ tpc = "loop" => fd.state = "open"

\* Formatting a row raised IndexError after some rows were written, and
\* the file was left open.
TableLeftOpenByIndexError ==
    /\ tpc = "raised"
    /\ tloc.exc = "IndexError"
    /\ fd.state = "open"

---------------------------------------------------------------------------
(* Length strings: an English Units object formats a length, then parses   *)
(* the string it produced.                                                 *)

MaxIncrement == 10000

IncrementsPerInch == {32, 64, 96}

Separators == {<<" ">>, <<"-">>}

LenInit ==
    /\ \E ipi \in IncrementsPerInch, sep \in Separators :
          LET u == Units(PyStr(sep), FALSE, PyInt(ipi), PyNone)
          IN /\ lunits = u.self
             /\ Units_quant = u.quant
    /\ lv \in 0..MaxIncrement
    /\ lstr = [exc |-> NoExc, s |-> <<>>]
    /\ lback = [exc |-> NoExc, v |-> 0]
    /\ lpc = "start"
    /\ FracIdle
    /\ UnitsIdle
    /\ SerIdle
    /\ TblIdle

LenFormat ==
    /\ lpc = "start"
    /\ lstr' = increments_to_string(lunits, Units_quant, lv)
    /\ lpc' = "formatted"
    /\ UNCHANGED <<Units_quant, lunits, lv, lback, fracVars, unitVars, serVars, tblVars>>

LenParse ==
    /\ lpc = "formatted"
    /\ lstr.exc = NoExc
    /\ lback' = string_to_increments(lunits, lstr.s)
    /\ lpc' = "parsed"
    /\ UNCHANGED <<Units_quant, lunits, lv, lstr, fracVars, unitVars, serVars, tblVars>>

LenNext == LenFormat \/ LenParse

SpecLen == LenInit /\ [][LenNext]_vars

\* v / ipi is k / d for an allowed denominator d: the denominator of the
\* reduced fraction is in {1,2,4,8,16,32,64}.
AllowedLength(v, ipi) == \E d \in allow_denoms : (v * d) % ipi = 0

\* s is digits, a point and three digits, and the number it writes is a
\* nearest multiple of 0.001 to v / ipi.
ThreeDecimals(s, v, ipi) ==
    /\ Len(s) >= 5
    /\ s[Len(s) - 3] = "."
    /\ IsDigits(SubSeq(s, 1, Len(s) - 4))
    /\ IsDigits(SubSeq(s, Len(s) - 2, Len(s)))
    /\ LET k == 1000 * DigitsVal(SubSeq(s, 1, Len(s) - 4))
                + DigitsVal(SubSeq(s, Len(s) - 2, Len(s)))
       IN 2 * Abs(k * ipi - 1000 * v) <= ipi

\* C8: for English units with 32, 64 or 96 increments per inch and every
\* integer length v in range, if v/ipi reduces to a denominator in
\* {1,2,4,8,16,32,64} the string is the fractional form (no decimal point)
\* and parsing it gives v back; otherwise the string is the 3-decimal form
\* of v/num_increments.
C8_LengthRoundTrip ==
    LET ipi == lunits.increments_per_inch.num
    IN /\ lpc # "start" =>
            /\ lstr.exc = NoExc
            /\ IF AllowedLength(lv, ipi)
               THEN Find(lstr.s, ".") = 0
               ELSE ThreeDecimals(lstr.s, lv, lunits.num_increments)
       /\ (lpc = "parsed" /\ AllowedLength(lv, ipi)) =>
            /\ lback.exc = NoExc
            /\ lback.v = lv

\* A mixed number (whole part, separator, fraction) has made the round trip.
C8_Witness ==
    /\ lpc = "parsed"
    /\ lunits.num_increments = 96
    /\ lv > 96
    /\ Find(lstr.s, "/") > 0
    /\ FindSub(lstr.s, lunits.english_separator.v, 1) > 1
    /\ lback.v = lv

\* A length with no allowed denominator has been formatted.
C8_WitnessDecimal ==
    /\ lpc = "formatted"
    /\ ~AllowedLength(lv, lunits.increments_per_inch.num)
    /\ Find(lstr.s, ".") > 0

---------------------------------------------------------------------------
(* Several Units objects: any interleaving of constructions and            *)
(* increments_to_string calls on the objects constructed so far.           *)

MaxUnits == 2
MaxCalls == 2
MaxLength == 4

NumIncrementsArgs == {PyNone, PyInt(8)}

UnitsInit ==
    /\ Units_quant = 2
    /\ uinsts = <<>>
    /\ ucalls = <<>>
    /\ FracIdle
    /\ LenIdle
    /\ SerIdle
    /\ TblIdle

UnitsNew ==
    /\ Len(uinsts) < MaxUnits
    /\ \E metric \in BOOLEAN, n \in NumIncrementsArgs :
          LET u == Units(PyStr(<<" ">>), metric, n, PyNone)
          IN /\ uinsts' = Append(uinsts, u.self)
             /\ Units_quant' = u.quant
    /\ UNCHANGED <<ucalls, fracVars, lenVars, serVars, tblVars>>

UnitsToString ==
    /\ Len(ucalls) < MaxCalls
    /\ \E i \in 1..Len(uinsts), x \in 0..MaxLength :
          ucalls' = Append(ucalls,
                           [inst |-> i, x |-> x,
                            r |-> increments_to_string(uinsts[i], Units_quant, x)])
    /\ UNCHANGED <<Units_quant, uinsts, fracVars, lenVars, serVars, tblVars>>

UnitsNext == UnitsNew \/ UnitsToString

SpecUnits == UnitsInit /\ [][UnitsNext]_vars

\* C10: the string an instance returns for x does not depend on the other
\* instances constructed before or between the calls, and a metric instance
\* always renders x/num_increments quantized to 0.01.
C10_UnitsIndependent ==
    /\ \A a, b \in 1..Len(ucalls) :
          (ucalls[a].inst = ucalls[b].inst /\ ucalls[a].x = ucalls[b].x)
              => ucalls[a].r = ucalls[b].r
    /\ \A a \in 1..Len(ucalls) :
          LET u == uinsts[ucalls[a].inst]
          IN u.metric =>
                ucalls[a].r.s
                    = FormatG(RoundHalfEven(100 * ucalls[a].x, u.num_increments), 2)

---------------------------------------------------------------------------
(* Fractions under test: every My_Fraction the constructor can build from  *)
(* the bounded arguments, then any sequence of reduce() and to_string().   *)

MaxWhole == 2
MaxNumer == 7
MaxDenom == 6
MaxFracOps == 2

FracDenominators == {PyNone} \cup {PyInt(d) : d \in 0..MaxDenom}

FracInit ==
    /\ Units_quant = 2
    /\ LenIdle
    /\ UnitsIdle
    /\ SerIdle
    /\ \E sep \in Separators, w \in (-MaxWhole)..MaxWhole,
          n \in (-MaxNumer)..MaxNumer, d \in FracDenominators :
          frac = My_Fraction(PyStr(sep), w, n, d)
    /\ fprev = frac
    /\ fops = <<>>
    /\ fres = [exc |-> NoExc, s |-> <<>>]
    /\ TblIdle

FracReduce ==
    /\ Len(fops) < MaxFracOps
    /\ fres.exc = NoExc
    /\ LET r == reduce(frac)
       IN /\ frac' = r.self
          /\ fres' = [exc |-> r.exc, s |-> <<>>]
    /\ fprev' = frac
    /\ fops' = Append(fops, "reduce")
    /\ UNCHANGED <<Units_quant, lenVars, unitVars, serVars, tblVars>>

FracToString ==
    /\ Len(fops) < MaxFracOps
    /\ fres.exc = NoExc
    /\ LET r == to_string(frac)
       IN /\ frac' = r.self
          /\ fres' = [exc |-> r.exc, s |-> r.s]
    /\ fprev' = frac
    /\ fops' = Append(fops, "to_string")
    /\ UNCHANGED <<Units_quant, lenVars, unitVars, serVars, tblVars>>

FracNext == FracReduce \/ FracToString

SpecFrac == FracInit /\ [][FracNext]_vars

---------------------------------------------------------------------------
(* Claims about My_Fraction *)

LastOp == IF fops = <<>> THEN "none" ELSE fops[Len(fops)]

\* The string the format rules give for a reduced fraction f.
FormatRule(f) ==
    LET neg == f.sign < 0 /\ (f.whole > 0 \/ f.numerator > 0)
        both == f.whole # 0 /\ f.numerator # 0
    IN IF f.whole = 0 /\ f.numerator = 0 THEN <<"0">>
       ELSE (IF neg THEN <<"-">> ELSE <<>>)
            \o (IF f.whole # 0 THEN FormatD(f.whole) ELSE <<>>)
            \o (IF both THEN f.english_separator.v ELSE <<>>)
            \o (IF f.numerator # 0
                THEN FormatD(f.numerator) \o <<"/">> \o FormatD(f.denominator.v)
                ELSE <<>>)

PositiveDenominator(f) == f.denominator.ty = "int" /\ f.denominator.v > 0

\* C6: to_string() of a fraction with a positive denominator returns, after
\* reduce(), '-' if the sign is negative and the value is not zero, the whole
\* part if not zero, the separator if both parts are not zero, then
\* numerator/denominator if the numerator is not zero, and '0' exactly when
\* both parts are zero.
C6_ToStringFormat ==
    (fops = <<"to_string">> /\ PositiveDenominator(fprev)) =>
        /\ fres.exc = NoExc
        /\ fres.s = FormatRule(frac)

\* What to_string() does instead: the '-' survives only when the whole part
\* is zero.
C6_SignOnlyWithoutWhole ==
    (fops = <<"to_string">> /\ PositiveDenominator(fprev) /\ frac.sign < 0) =>
        /\ fres.exc = NoExc
        /\ (Head(fres.s) = "-") <=> (frac.whole = 0)

\* The same value: whole + numerator/denominator, cross-multiplied.
SameValue(f, g) ==
    (f.whole * f.denominator.v + f.numerator) * g.denominator.v
        = (g.whole * g.denominator.v + g.numerator) * f.denominator.v

Coprime(a, b) == \A k \in 2..Abs(b) : ~(a % k = 0 /\ b % k = 0)

NormalForm(f) ==
    f.numerator = 0 \/ (f.numerator < f.denominator.v /\ Coprime(f.numerator, f.denominator.v))

ReduceNoOp ==
    (fprev.denominator.ty = "None" \/ fprev.numerator = 0) =>
        (frac = fprev /\ fres.exc = NoExc)

ReduceTwice ==
    (Len(fops) >= 2 /\ fops[Len(fops) - 1] = "reduce") => frac = fprev

\* C7 as stated: for every fraction with a set denominator, reduce() keeps the
\* value and leaves numerator = 0 or numerator < denominator with gcd 1; with
\* the denominator unset or the numerator zero it changes nothing and raises
\* nothing; a second reduce() changes nothing.
C7_ReduceAnySetDenominator ==
    LastOp = "reduce" =>
        /\ ReduceNoOp
        /\ fprev.denominator.ty = "int" =>
               /\ fres.exc = NoExc
               /\ SameValue(fprev, frac)
               /\ NormalForm(frac)
        /\ ReduceTwice

\* C7 amended: the same for every fraction with a set, positive denominator.
C7_ReduceNormalForm ==
    LastOp = "reduce" =>
        /\ ReduceNoOp
        /\ PositiveDenominator(fprev) =>
               /\ fres.exc = NoExc
               /\ SameValue(fprev, frac)
               /\ NormalForm(frac)
        /\ ReduceTwice

\* reduce() has carried a whole part out of an improper fraction and divided
\* out a common factor.
C7_Witness ==
    /\ LastOp = "reduce"
    /\ PositiveDenominator(fprev)
    /\ fprev.numerator > fprev.denominator.v
    /\ frac.whole > fprev.whole
    /\ frac.numerator > 0
    /\ frac.denominator.v < fprev.denominator.v

\* A second reduce() has run on a fraction the first one changed.
C7_WitnessTwice ==
    /\ fops = <<"reduce", "reduce">>
    /\ frac.whole > 0
    /\ frac.numerator > 0
    /\ frac.denominator.v > 1

=============================================================================
